---- MODULE Spec2Model ----
(***************************************************************************)
(* CHIP-8 interpreter core (chip8/src/lib.rs): the Chip8 struct, load,     *)
(* cycle and timer, driven by a host loop that also writes the key latch.  *)
(* The machine is one record `chip8` whose fields are the struct's fields. *)
(* A Rust panic (index out of bounds, unimplemented!, arithmetic overflow  *)
(* in an overflow-checked build) ends the process: it is recorded in       *)
(* `panic` together with the partial effects made before it.               *)
(* The arrays memory and display are sequences: element a of the source's  *)
(* array is element a + 1 here (Mem and Pixel read them by the source's    *)
(* index).                                                                 *)
(***************************************************************************)
EXTENDS Integers, Sequences, FiniteSets, TLC

VARIABLES chip8, panic, result, overflow_checks, call, prev, rom, nloads, ncycles

vars == <<chip8, panic, result, overflow_checks, call, prev, rom, nloads, ncycles>>

\* ------------------------------------------------------------ constants
MEMORY_SIZE == 4096
V_COUNT == 16
STACK_SIZE == 16
DISPLAY_WIDTH == 64
DISPLAY_HEIGHT == 32
DISPLAY_SIZE == DISPLAY_WIDTH * DISPLAY_HEIGHT
KEY_COUNT == 16
PROGRAM_START == 512
ROM_LIMIT == 4095 - 512

SPRITES ==
  << 240, 144, 144, 144, 240,   32,  96,  32,  32, 112,
     240,  16, 240, 128, 240,  240,  16, 240,  16, 240,
     144, 144, 240,  16,  16,  240, 128, 240,  16, 240,
     240, 128, 240, 144, 240,  240,  16,  32,  64,  64,
     240, 144, 240, 144, 240,  240, 144, 240,  16, 240,
     240, 144, 240, 144, 144,  224, 144, 224, 144, 224,
     240, 128, 128, 128, 240,  224, 144, 144, 144, 224,
     240, 128, 240, 128, 240,  240, 128, 240, 128, 128 >>

\* ------------------------------------------------------------ integers
RECURSIVE BitAnd(_, _)
BitAnd(a, b) ==
  IF a = 0 \/ b = 0 THEN 0
  ELSE (a % 2) * (b % 2) + 2 * BitAnd(a \div 2, b \div 2)

RECURSIVE BitOr(_, _)
BitOr(a, b) ==
  IF a = 0 THEN b
  ELSE IF b = 0 THEN a
  ELSE (IF a % 2 = 1 \/ b % 2 = 1 THEN 1 ELSE 0) + 2 * BitOr(a \div 2, b \div 2)

RECURSIVE BitXor(_, _)
BitXor(a, b) ==
  IF a = 0 THEN b
  ELSE IF b = 0 THEN a
  ELSE ((a + b) % 2) + 2 * BitXor(a \div 2, b \div 2)

Pow2(k) == CASE k = 0 -> 1 [] k = 1 -> 2 [] k = 2 -> 4 [] k = 3 -> 8
             [] k = 4 -> 16 [] k = 5 -> 32 [] k = 6 -> 64 [] k = 7 -> 128
             [] k = 8 -> 256 [] k = 12 -> 4096 [] k = 16 -> 65536

\* The outcome of one call: the machine as the call left it, and the panic
\* that ended it ("none" when it returned).
Ok(m) == [chip8 |-> m, panic |-> "none"]
Panic(m, why) == [chip8 |-> m, panic |-> why]

\* a + b in an unsigned type of `bits` bits: wraps without overflow checks,
\* panics with them.
AddOverflows(a, b, bits) == a + b >= Pow2(bits)
SubOverflows(a, b) == a < b
WrapAdd(a, b, bits) == (a + b) % Pow2(bits)
WrapSub(a, b, bits) == (a - b + Pow2(bits)) % Pow2(bits)

\* memory[a] and display[p] of the source.
Mem(m, a) == m.memory[a + 1]
Pixel(m, p) == m.display[p + 1]

\* ------------------------------------------------------------ Chip8::new
new ==
  [ memory  |-> [a \in 1..MEMORY_SIZE |->
                   IF a <= Len(SPRITES) THEN SPRITES[a] ELSE 0],
    V       |-> [r \in 0..(V_COUNT - 1) |-> 0],
    stack   |-> [s \in 0..(STACK_SIZE - 1) |-> 0],
    display |-> [p \in 1..DISPLAY_SIZE |-> FALSE],
    keys    |-> [k \in 0..(KEY_COUNT - 1) |-> FALSE],
    I       |-> 0,
    pc      |-> 0,
    sp      |-> 0,
    DT      |-> 0,
    ST      |-> 0,
    tmp     |-> FALSE ]

\* ------------------------------------------------------------ Chip8::load
\* A file is [exists, bytes]; romsize is the length of its bytes.
\* Mutant: the size test of load off by one (>= for >).
load_result_offbyone(file) ==
  IF ~file.exists THEN <<"Io", 0>>
  ELSE IF Len(file.bytes) >= ROM_LIMIT THEN <<"ROMIsTooBig", Len(file.bytes)>>
  ELSE <<"Ok", 0>>

load_result(file) ==
  IF ~file.exists THEN <<"Io", 0>>
  ELSE IF Len(file.bytes) > ROM_LIMIT THEN <<"ROMIsTooBig", Len(file.bytes)>>
  ELSE <<"Ok", 0>>

\* Mutant: load clears program memory behind the image.
load_clearing(m, file) ==
  IF load_result(file)[1] # "Ok" THEN m
  ELSE LET romsize == Len(file.bytes) IN
       [m EXCEPT
          !.memory = SubSeq(m.memory, 1, PROGRAM_START) \o file.bytes
                       \o [a \in 1..(MEMORY_SIZE - PROGRAM_START - romsize) |-> 0],
          !.pc = PROGRAM_START]

\* read_exact fills the slice memory[0x200..0x200 + romsize].
load(m, file) ==
  IF load_result(file)[1] # "Ok" THEN m
  ELSE LET romsize == Len(file.bytes) IN
       [m EXCEPT
          !.memory = SubSeq(m.memory, 1, PROGRAM_START) \o file.bytes
                       \o SubSeq(m.memory, PROGRAM_START + romsize + 1, MEMORY_SIZE),
          !.pc = PROGRAM_START]

\* ------------------------------------------------------------ Chip8::timer
\* Mutant: both timers are decremented unconditionally and wrap.
timer_wrapping(m) ==
  [m EXCEPT !.DT = (m.DT + 255) % 256, !.ST = (m.ST + 255) % 256]

timer(m) ==
  LET m1 == IF m.DT > 0 THEN [m EXCEPT !.DT = m.DT - 1] ELSE m
  IN  IF m1.ST > 0 THEN [m1 EXCEPT !.ST = m1.ST - 1] ELSE m1

\* ------------------------------------------------------------ Chip8::cycle
\* Mutant: the opcode is read low byte first.
opcode_at_little_endian(m) == Mem(m, m.pc + 1) * 256 + Mem(m, m.pc)

\* The 16-bit big-endian opcode at the program counter (fetch, lines 81-82).
opcode_at(m) == Mem(m, m.pc) * 256 + Mem(m, m.pc + 1)

field_o(opcode) == opcode \div 4096
field_nnn(opcode) == opcode % 4096
field_n(opcode) == opcode % 16
field_x(opcode) == (opcode \div 256) % 16
field_y(opcode) == (opcode \div 16) % 16
field_kk(opcode) == opcode % 256

SetV(m, r, val) == [m EXCEPT !.V[r] = val]

\* `pc += 2` of a taken skip.
skip_if(m, cond) == IF cond THEN [m EXCEPT !.pc = m.pc + 2] ELSE m

\* Mutant: clearing the display also resets the flag register.
op_CLS_resetting_flag(m) ==
  Ok([m EXCEPT !.display = [p \in 1..DISPLAY_SIZE |-> FALSE], !.V[15] = 0])

\* 00E0 - CLS
op_CLS(m) == Ok([m EXCEPT !.display = [p \in 1..DISPLAY_SIZE |-> FALSE]])

\* Mutant: the stack pointer is decremented before the slot is read.
op_RET_predecrement(m, oc) ==
  IF SubOverflows(m.sp, 1)
  THEN (IF oc THEN Panic(m, "overflow")
              ELSE Panic([m EXCEPT !.sp = WrapSub(m.sp, 1, 8)], "index"))
  ELSE LET m1 == [m EXCEPT !.sp = m.sp - 1] IN
       Ok([m1 EXCEPT !.pc = m1.stack[m1.sp]])

\* 00EE - RET: pc = stack[sp]; sp -= 1
op_RET(m, oc) ==
  IF m.sp >= STACK_SIZE THEN Panic(m, "index")
  ELSE LET m1 == [m EXCEPT !.pc = m.stack[m.sp]] IN
       IF SubOverflows(m1.sp, 1)
       THEN (IF oc THEN Panic(m1, "overflow")
                   ELSE Ok([m1 EXCEPT !.sp = WrapSub(m1.sp, 1, 8)]))
       ELSE Ok([m1 EXCEPT !.sp = m1.sp - 1])

\* 1nnn - JP addr
op_JP(m, nnn) == Ok([m EXCEPT !.pc = nnn])

\* 2nnn - CALL addr: sp += 1; stack[sp] = pc; pc = nnn
op_CALL(m, nnn, oc) ==
  IF AddOverflows(m.sp, 1, 8) /\ oc THEN Panic(m, "overflow")
  ELSE LET m1 == [m EXCEPT !.sp = WrapAdd(m.sp, 1, 8)] IN
       IF m1.sp >= STACK_SIZE THEN Panic(m1, "index")
       ELSE Ok([m1 EXCEPT !.stack[m1.sp] = m1.pc, !.pc = nnn])

\* 3xkk - SE Vx, byte
op_SE_byte(m, x, kk) == Ok(skip_if(m, m.V[x] = kk))

\* Mutant: 4xkk skips on equality, as 3xkk does.
op_SNE_byte_equal(m, x, kk) == Ok(skip_if(m, m.V[x] = kk))

\* 4xkk - SNE Vx, byte
op_SNE_byte(m, x, kk) == Ok(skip_if(m, m.V[x] # kk))

\* 5xy0 - SE Vx, Vy
op_SE_reg(m, x, y) == Ok(skip_if(m, m.V[x] = m.V[y]))

\* 9xy0 - SNE Vx, Vy
op_SNE_reg(m, x, y) == Ok(skip_if(m, m.V[x] # m.V[y]))

\* 6xkk - LD Vx, byte
op_LD_byte(m, x, kk) == Ok(SetV(m, x, kk))

\* 7xkk - ADD Vx, byte: Vx += kk
op_ADD_byte(m, x, kk, oc) ==
  IF AddOverflows(m.V[x], kk, 8) /\ oc THEN Panic(m, "overflow")
  ELSE Ok(SetV(m, x, WrapAdd(m.V[x], kk, 8)))

\* Mutant: 8xy3 computes the OR.
op_XOR_as_or(m, x, y) == Ok(SetV(m, x, BitOr(m.V[x], m.V[y])))

\* 8xy0..8xy3
op_LD_reg(m, x, y) == Ok(SetV(m, x, m.V[y]))
op_OR(m, x, y) == Ok(SetV(m, x, BitOr(m.V[x], m.V[y])))
op_AND(m, x, y) == Ok(SetV(m, x, BitAnd(m.V[x], m.V[y])))
op_XOR(m, x, y) == Ok(SetV(m, x, BitXor(m.V[x], m.V[y])))

\* Mutant: the carry threshold of 8xy4 is 0x10.
op_ADD_reg_low_threshold(m, x, y) ==
  LET sum == m.V[x] + m.V[y]
      m1 == SetV(m, 15, IF sum > 16 THEN 1 ELSE 0)
  IN  Ok(SetV(m1, x, sum % 256))

\* 8xy4 - ADD Vx, Vy: the u16 sum is taken first, then VF, then Vx.
op_ADD_reg(m, x, y) ==
  LET sum == m.V[x] + m.V[y]
      m1 == SetV(m, 15, IF sum > 255 THEN 1 ELSE 0)
  IN  Ok(SetV(m1, x, sum % 256))

\* 8xy4 in the interpreter copy of the root crate (src/src/lib.rs): the same
\* arm with the flag compared against 0x10.
op_ADD_reg_root(m, x, y) ==
  LET sum == m.V[x] + m.V[y]
      m1 == SetV(m, 15, IF sum > 16 THEN 1 ELSE 0)
  IN  Ok(SetV(m1, x, BitAnd(sum, 255)))

\* Mutant: 8xy5 computes Vy - Vx (the operands of 8xy7).
op_SUB_swapped(m, x, y, oc) ==
  LET m1 == SetV(m, 15, IF m.V[x] >= m.V[y] THEN 1 ELSE 0) IN
  IF SubOverflows(m1.V[y], m1.V[x]) /\ oc THEN Panic(m1, "overflow")
  ELSE Ok(SetV(m1, x, WrapSub(m1.V[y], m1.V[x], 8)))

\* 8xy5 - SUB Vx, Vy: VF is written first; `Vx -= Vy` then reads the
\* registers again.
op_SUB(m, x, y, oc) ==
  LET m1 == SetV(m, 15, IF m.V[x] >= m.V[y] THEN 1 ELSE 0) IN
  IF SubOverflows(m1.V[x], m1.V[y]) /\ oc THEN Panic(m1, "overflow")
  ELSE Ok(SetV(m1, x, WrapSub(m1.V[x], m1.V[y], 8)))

\* 8xy6 - SHR Vx
op_SHR(m, x) ==
  LET m1 == SetV(m, 15, m.V[x] % 2) IN Ok(SetV(m1, x, m1.V[x] \div 2))

\* 8xy7 - SUBN Vx, Vy
op_SUBN(m, x, y, oc) ==
  LET m1 == SetV(m, 15, IF m.V[y] >= m.V[x] THEN 1 ELSE 0) IN
  IF SubOverflows(m1.V[y], m1.V[x]) /\ oc THEN Panic(m1, "overflow")
  ELSE Ok(SetV(m1, x, WrapSub(m1.V[y], m1.V[x], 8)))

\* 8xyE - SHL Vx
op_SHL(m, x) ==
  LET m1 == SetV(m, 15, m.V[x] \div 128) IN Ok(SetV(m1, x, (m1.V[x] * 2) % 256))

\* Annn - LD I, addr
op_LD_I(m, nnn) == Ok([m EXCEPT !.I = nnn])

\* Bnnn - JP V0, addr
op_JP_V0(m, nnn) == Ok([m EXCEPT !.pc = nnn + m.V[0]])

\* Cxkk - RND Vx, byte
op_RND(m, x, kk, random) == Ok(SetV(m, x, BitAnd(random, kk)))

\* Mutant: the collision flag is rewritten for every pixel (last writer
\* wins).
RECURSIVE draw_bits_lastwriter(_, _, _, _, _, _)
draw_bits_lastwriter(m, x, y, i, byte, j) ==
  IF j < 0 THEN m
  ELSE LET bit == ((byte \div Pow2(j)) % 2) # 0
           index == ((x + (7 - j)) % DISPLAY_WIDTH)
                      + (DISPLAY_WIDTH * ((y + i) % DISPLAY_HEIGHT))
           m1 == SetV(m, 15, IF Pixel(m, index) /\ bit THEN 1 ELSE 0)
           m2 == [m1 EXCEPT !.display[index + 1] = (Pixel(m1, index) # bit)]
       IN  draw_bits_lastwriter(m2, x, y, i, byte, j - 1)

\* Mutant: pixels beyond the right and bottom edges are clipped, not wrapped.
RECURSIVE draw_bits_clipped(_, _, _, _, _, _)
draw_bits_clipped(m, x, y, i, byte, j) ==
  IF j < 0 THEN m
  ELSE IF x + (7 - j) >= DISPLAY_WIDTH \/ y + i >= DISPLAY_HEIGHT
  THEN draw_bits_clipped(m, x, y, i, byte, j - 1)
  ELSE LET bit == ((byte \div Pow2(j)) % 2) # 0
           index == (x + (7 - j)) + (DISPLAY_WIDTH * (y + i))
           m1 == IF Pixel(m, index) /\ bit THEN SetV(m, 15, 1) ELSE m
           m2 == [m1 EXCEPT !.display[index + 1] = (Pixel(m1, index) # bit)]
       IN  draw_bits_clipped(m2, x, y, i, byte, j - 1)

\* Mutant: the sprite bit is ORed into the pixel.
RECURSIVE draw_bits_or(_, _, _, _, _, _)
draw_bits_or(m, x, y, i, byte, j) ==
  IF j < 0 THEN m
  ELSE LET bit == ((byte \div Pow2(j)) % 2) # 0
           index == ((x + (7 - j)) % DISPLAY_WIDTH)
                      + (DISPLAY_WIDTH * ((y + i) % DISPLAY_HEIGHT))
           m1 == IF Pixel(m, index) /\ bit THEN SetV(m, 15, 1) ELSE m
           m2 == [m1 EXCEPT !.display[index + 1] = (Pixel(m1, index) \/ bit)]
       IN  draw_bits_or(m2, x, y, i, byte, j - 1)

\* Dxyn - DRW Vx, Vy, nibble.  draw_bits is the inner loop (j = 7 down to 0)
\* over one sprite byte, draw_rows the outer loop (i = 0 .. n-1).
RECURSIVE draw_bits(_, _, _, _, _, _)
draw_bits(m, x, y, i, byte, j) ==
  IF j < 0 THEN m
  ELSE LET bit == ((byte \div Pow2(j)) % 2) # 0
           index == ((x + (7 - j)) % DISPLAY_WIDTH)
                      + (DISPLAY_WIDTH * ((y + i) % DISPLAY_HEIGHT))
           m1 == IF Pixel(m, index) /\ bit THEN SetV(m, 15, 1) ELSE m
           m2 == [m1 EXCEPT !.display[index + 1] = (Pixel(m1, index) # bit)]
       IN  draw_bits(m2, x, y, i, byte, j - 1)

RECURSIVE draw_rows(_, _, _, _, _)
draw_rows(m, x, y, n, i) ==
  IF i >= n THEN Ok(m)
  ELSE IF m.I + i >= MEMORY_SIZE THEN Panic(m, "index")
  ELSE draw_rows(draw_bits(m, x, y, i, Mem(m, m.I + i), 7), x, y, n, i + 1)

\* Mutant: the coordinates are read after the flag register is reset.
op_DRW_reading_after_reset(m, x, y, n) ==
  LET m0 == SetV(m, 15, 0)
  IN  draw_rows(m0, m0.V[x], m0.V[y], n, 0)

op_DRW(m, x, y, n) ==
  LET vx == m.V[x]
      vy == m.V[y]
  IN  draw_rows(SetV(m, 15, 0), vx, vy, n, 0)

\* Ex9E - SKP Vx
op_SKP(m, x) ==
  IF m.V[x] >= KEY_COUNT THEN Panic(m, "index")
  ELSE Ok(skip_if(m, m.keys[m.V[x]]))

\* ExA1 - SKNP Vx
op_SKNP(m, x) ==
  IF m.V[x] >= KEY_COUNT THEN Panic(m, "index")
  ELSE Ok(skip_if(m, ~m.keys[m.V[x]]))

\* Fx07 - LD Vx, DT
op_LD_from_DT(m, x) == Ok(SetV(m, x, m.DT))

\* Fx0A - LD Vx, K: pc -= 2, then the first pressed key (in index order)
\* is stored and pc += 2 again.
RECURSIVE first_key(_, _)
first_key(keys, i) ==
  IF i >= KEY_COUNT THEN KEY_COUNT
  ELSE IF keys[i] THEN i
  ELSE first_key(keys, i + 1)

\* Mutant: no rollback of the program counter while no key is pressed.
op_LD_key_norollback(m, x) ==
  LET k == first_key(m.keys, 0)
  IN  IF k < KEY_COUNT THEN Ok(SetV(m, x, k)) ELSE Ok(m)

\* Mutant: the key that ends the wait is consumed (released).
op_LD_key_consuming(m, x) ==
  LET m1 == [m EXCEPT !.pc = m.pc - 2]
      k == first_key(m1.keys, 0)
  IN  IF k < KEY_COUNT
      THEN Ok([SetV(m1, x, k) EXCEPT !.pc = m1.pc + 2, !.keys[k] = FALSE])
      ELSE Ok(m1)

\* Mutant: the key is stored but the program counter stays at the Fx0A.
op_LD_key_stuck(m, x) ==
  LET m1 == [m EXCEPT !.pc = m.pc - 2]
      k == first_key(m1.keys, 0)
  IN  IF k < KEY_COUNT THEN Ok(SetV(m1, x, k)) ELSE Ok(m1)

op_LD_key(m, x) ==
  LET m1 == [m EXCEPT !.pc = m.pc - 2]
      k == first_key(m1.keys, 0)
  IN  IF k < KEY_COUNT
      THEN Ok([SetV(m1, x, k) EXCEPT !.pc = m1.pc + 2])
      ELSE Ok(m1)

\* Mutant: Fx18 sets both timers.
op_LD_ST_both(m, x) == Ok([m EXCEPT !.ST = m.V[x], !.DT = m.V[x]])

\* Fx15 - LD DT, Vx; Fx18 - LD ST, Vx
op_LD_DT(m, x) == Ok([m EXCEPT !.DT = m.V[x]])
op_LD_ST(m, x) == Ok([m EXCEPT !.ST = m.V[x]])

\* Fx1E - ADD I, Vx: I += Vx as u16
op_ADD_I(m, x, oc) ==
  IF AddOverflows(m.I, m.V[x], 16) /\ oc THEN Panic(m, "overflow")
  ELSE Ok([m EXCEPT !.I = WrapAdd(m.I, m.V[x], 16)])

\* Mutant: Fx29 leaves the digit itself in I.
op_LD_F_unscaled(m, x) == Ok([m EXCEPT !.I = m.V[x]])

\* Fx29 - LD F, Vx
op_LD_F(m, x) == Ok([m EXCEPT !.I = m.V[x] * 5])

\* Mutant: the digits are stored ones first.
op_LD_B_reversed(m, x) ==
  IF m.I + 2 >= MEMORY_SIZE THEN Panic(m, "index")
  ELSE Ok([m EXCEPT !.memory[m.I + 1] = m.V[x] % 10,
                    !.memory[m.I + 2] = (m.V[x] \div 10) % 10,
                    !.memory[m.I + 3] = (m.V[x] \div 100) % 10])

\* Fx33 - LD B, Vx: three stores, each bounds-checked in turn
op_LD_B(m, x) ==
  IF m.I >= MEMORY_SIZE THEN Panic(m, "index")
  ELSE LET m1 == [m EXCEPT !.memory[m.I + 1] = (m.V[x] \div 100) % 10] IN
  IF m.I + 1 >= MEMORY_SIZE THEN Panic(m1, "index")
  ELSE LET m2 == [m1 EXCEPT !.memory[m.I + 2] = (m.V[x] \div 10) % 10] IN
  IF m.I + 2 >= MEMORY_SIZE THEN Panic(m2, "index")
  ELSE Ok([m2 EXCEPT !.memory[m.I + 3] = m.V[x] % 10])

\* Mutant: the store loop runs over 0..x exclusive.
RECURSIVE store_regs_exclusive(_, _, _)
store_regs_exclusive(m, x, offset) ==
  IF offset >= x THEN Ok(m)
  ELSE IF m.I + offset >= MEMORY_SIZE THEN Panic(m, "index")
  ELSE store_regs_exclusive([m EXCEPT !.memory[m.I + offset + 1] = m.V[offset]],
                            x, offset + 1)

\* Fx55 - LD [I], Vx: for offset in 0..=x
RECURSIVE store_regs(_, _, _)
store_regs(m, x, offset) ==
  IF offset > x THEN Ok(m)
  ELSE IF m.I + offset >= MEMORY_SIZE THEN Panic(m, "index")
  ELSE store_regs([m EXCEPT !.memory[m.I + offset + 1] = m.V[offset]], x, offset + 1)

op_LD_store(m, x) == store_regs(m, x, 0)

\* Fx65 - LD Vx, [I]: for offset in 0..=x
RECURSIVE load_regs(_, _, _)
load_regs(m, x, offset) ==
  IF offset > x THEN Ok(m)
  ELSE IF m.I + offset >= MEMORY_SIZE THEN Panic(m, "index")
  ELSE load_regs(SetV(m, offset, Mem(m, m.I + offset)), x, offset + 1)

op_LD_load(m, x) == load_regs(m, x, 0)

\* The match on (o, kk, n), arm by arm in the source's order; m is the
\* machine after `pc += 2`.
dispatch(m, opcode, random, oc) ==
  LET o == field_o(opcode)
      nnn == field_nnn(opcode)
      n == field_n(opcode)
      x == field_x(opcode)
      y == field_y(opcode)
      kk == field_kk(opcode)
  IN  CASE o = 0 /\ kk = 224 -> op_CLS(m)
        [] o = 0 /\ kk = 238 -> op_RET(m, oc)
        [] o = 1 -> op_JP(m, nnn)
        [] o = 2 -> op_CALL(m, nnn, oc)
        [] o = 3 -> op_SE_byte(m, x, kk)
        [] o = 4 -> op_SNE_byte(m, x, kk)
        [] o = 5 /\ n = 0 -> op_SE_reg(m, x, y)
        [] o = 6 -> op_LD_byte(m, x, kk)
        [] o = 7 -> op_ADD_byte(m, x, kk, oc)
        [] o = 8 /\ n = 0 -> op_LD_reg(m, x, y)
        [] o = 8 /\ n = 1 -> op_OR(m, x, y)
        [] o = 8 /\ n = 2 -> op_AND(m, x, y)
        [] o = 8 /\ n = 3 -> op_XOR(m, x, y)
        [] o = 8 /\ n = 4 -> op_ADD_reg(m, x, y)
        [] o = 8 /\ n = 5 -> op_SUB(m, x, y, oc)
        [] o = 8 /\ n = 6 -> op_SHR(m, x)
        [] o = 8 /\ n = 7 -> op_SUBN(m, x, y, oc)
        [] o = 8 /\ n = 14 -> op_SHL(m, x)
        [] o = 9 /\ n = 0 -> op_SNE_reg(m, x, y)
        [] o = 10 -> op_LD_I(m, nnn)
        [] o = 11 -> op_JP_V0(m, nnn)
        [] o = 12 -> op_RND(m, x, kk, random)
        [] o = 13 -> op_DRW(m, x, y, n)
        [] o = 14 /\ kk = 158 -> op_SKP(m, x)
        [] o = 14 /\ kk = 161 -> op_SKNP(m, x)
        [] o = 15 /\ kk = 7 -> op_LD_from_DT(m, x)
        [] o = 15 /\ kk = 10 -> op_LD_key(m, x)
        [] o = 15 /\ kk = 21 -> op_LD_DT(m, x)
        [] o = 15 /\ kk = 24 -> op_LD_ST(m, x)
        [] o = 15 /\ kk = 30 -> op_ADD_I(m, x, oc)
        [] o = 15 /\ kk = 41 -> op_LD_F(m, x)
        [] o = 15 /\ kk = 51 -> op_LD_B(m, x)
        [] o = 15 /\ kk = 85 -> op_LD_store(m, x)
        [] o = 15 /\ kk = 101 -> op_LD_load(m, x)
        [] OTHER -> Panic(m, "unimplemented")

\* Mutant: the machine idles while the delay timer runs.
cycle_idle_while_delay(m, random, oc) ==
  IF m.tmp \/ m.DT > 0 THEN Ok(m)
  ELSE IF m.pc >= MEMORY_SIZE \/ m.pc + 1 >= MEMORY_SIZE THEN Panic(m, "index")
  ELSE dispatch([m EXCEPT !.pc = m.pc + 2], opcode_at(m), random, oc)

\* One call of cycle: the early return on tmp, the fetch (two bounds-checked
\* reads), pc += 2, the dispatch.
cycle(m, random, oc) ==
  IF m.tmp THEN Ok(m)
  ELSE IF m.pc >= MEMORY_SIZE \/ m.pc + 1 >= MEMORY_SIZE THEN Panic(m, "index")
  ELSE dispatch([m EXCEPT !.pc = m.pc + 2], opcode_at(m), random, oc)

\* ------------------------------------------------------------ ROM images
\* The inputs of load.  An image is named by [kind, a, b, c, d]; FileOf gives
\* the file behind the name.
MaxCycles == 34
MaxLoads == 2
MaxLongCycles == 244

Rom(kind, a, b, c, d) == [kind |-> kind, a |-> a, b |-> b, c |-> c, d |-> d]
NoRom == Rom("none", 0, 0, 0, 0)

Hi(w) == w \div 256
Lo(w) == w % 256

\* The bytes of a sequence of 16-bit instruction words, big-endian.
Asm(words) ==
  [i \in 1..(2 * Len(words)) |->
     IF i % 2 = 1 THEN Hi(words[(i + 1) \div 2]) ELSE Lo(words[i \div 2])]

\* bytes, zero-padded to length len.
PadTo(bytes, len) ==
  [i \in 1..len |-> IF i <= Len(bytes) THEN bytes[i] ELSE 0]

\* An image of a given length: 6105 (V1 := 5), 0000, then non-zero filler.
FillBytes(len) ==
  [i \in 1..len |->
     CASE i = 1 -> 97 [] i = 2 -> 5 [] i = 3 -> 0 [] i = 4 -> 0
       [] OTHER -> ((i * 7) % 255) + 1]

\* VA := 42; call 0x206; (0x204) 0000; 0x206: I := 0x300; store V0..VA;
\* V2 := 9; return.  Followed by non-zero bytes up to 0x20F.
WorkBytes ==
  Asm(<<27178, 8710, 0, 41728, 64085, 25097, 238>>) \o <<171, 205>>

\* The end-to-end program 6005 8105 3205 00E0.
E2EBytes == <<96, 5, 129, 5, 50, 5, 0, 224>>

SpriteOf(s) ==
  CASE s = 0 -> << >>
    [] s = 1 -> <<128>>
    [] s = 2 -> <<128, 0, 1>>
    [] s = 3 -> <<0, 0, 1>>
    [] s = 4 -> <<255, 129, 255>>
    [] s = 5 -> [r \in 1..15 |-> (r * 37) % 256]

\* V0 := vx; V1 := vy; I := 0x220; draw sprite s1; I := 0x230; draw sprite
\* s2 twice; 0000.  Sprite s1 lies at 0x220, s2 at 0x230.
DrawBytes(vx, vy, s1, s2) ==
  PadTo(Asm(<<24576 + vx, 24832 + vy, 41504,
              53264 + Len(SpriteOf(s1)), 41520,
              53264 + Len(SpriteOf(s2)), 53264 + Len(SpriteOf(s2)), 0>>), 32)
    \o PadTo(SpriteOf(s1), 16) \o SpriteOf(s2)

\* I := 0xFFE; draw three rows from there (the third lies outside memory).
DrawEndBytes == Asm(<<24636, 24862, 45054, 53267>>)

\* V3 := 7; wait for a key into V3; V4 := 1; 0000.
KeyWaitBytes == Asm(<<25351, 62218, 25601, 0>>)

\* k nested subroutines: 0x200 calls S1 and then meets 0000; Si (at
\* 0x200 + 4i) calls S(i+1) and returns; Sk only returns.
NestBytes(k) ==
  [i \in 1..(4 * k + 2) |->
     LET sub == (i - 1) \div 4
         off == (i - 1) % 4
         target == PROGRAM_START + 4 * (sub + 1)
     IN  IF sub = k THEN (IF off = 0 THEN 0 ELSE 238)
         ELSE CASE off = 0 -> 32 + Hi(target)
                [] off = 1 -> Lo(target)
                [] off = 2 -> 0
                [] off = 3 -> (IF sub = 0 THEN 0 ELSE 238)]

\* 00EE as the first instruction.
RetBytes == <<0, 238>>


\* One instruction on prepared registers: Vy := c; Vx := b (x, y the
\* register nibbles of the opcode); the opcode; 0000.
OpBytes(opcode, b, c) ==
  Asm(<<24576 + 256 * field_y(opcode) + c, 24576 + 256 * field_x(opcode) + b,
        opcode, 0>>)

\* V0 := dt; DT := V0; V1 := st; ST := V1; 0000.
TimerBytes(dt, st) == Asm(<<24576 + dt, 61461, 24832 + st, 61720, 0>>)

\* V1 := 9; Ex9E and ExA1 on key 9; wait for a key into V2; 0000.
KeyTestBytes == Asm(<<24841, 57758, 57761, 57758, 57761, 61962, 0>>)

\* V0..V3 := a, b, c, 0x77; I := 0x300; store V0..Vx; V0..V3 := 0xEE, 0xEE,
\* 0xEE, 0x11; load V0..Vx; 0000.
RegsBytes(x, a, b, c) ==
  Asm(<<24576 + a, 24832 + b, 25088 + c, 25344 + 119, 41728,
        61525 + 256 * x, 24576 + 238, 24832 + 238, 25088 + 238, 25344 + 17,
        61541 + 256 * x, 0>>)

\* V0 := v; I := 0x300; F033 (decimal digits of V0); 0000.
BcdBytes(v) == Asm(<<24576 + v, 41728, 61491, 0>>)

\* V0 := dt; DT := V0; V1 := st; ST := V1; V2 := DT; V5 := 1; V3 := DT;
\* 0000.
TimerReadBytes(dt, st) ==
  Asm(<<24576 + dt, 61461, 24832 + st, 61720, 61959, 25857, 62215, 0>>)

\* V0 := 5; I := 0xFFF; one instruction that addresses memory from I; 0000.
EdgeBytes(opcode) == Asm(<<24576 + 5, 45055, opcode, 0>>)

\* 1FFF: jump to the last byte of memory.
JumpEndBytes == Asm(<<8191>>)

\* V0 := 255; BFFF: jump to 0xFFF + V0.
JumpV0Bytes == Asm(<<24576 + 255, 49151>>)

\* V0 := 255; I := 0xFFF; I += V0; store V0 at I.
AddIBytes == Asm(<<24576 + 255, 45055, 61470, 61525>>)

\* V0 := v; I := 0xFFF; then I += V0 (F01E) 241 times in a row.
AddIRunBytes(v) ==
  Asm(<<24576 + v, 45055>>) \o [i \in 1..482 |-> IF i % 2 = 1 THEN 240 ELSE 30]

\* V0 := d; I := glyph of V0; draw five rows at (V0, V0); VF := 7; V2 := 3;
\* DT := V2; ST := V2; call 0x212; 0000; 0x212: 00E0; return.
GlyphBytes(d) ==
  Asm(<<24576 + d, 61481, 53253, 28423, 25091, 61973, 61976, 8722, 0, 224,
        238>>)

FileBytes(id) ==
  [ exists |-> id.kind # "missing",
    bytes  |-> CASE id.kind = "fill" -> FillBytes(id.a)
                 [] id.kind = "work" -> WorkBytes
                 [] id.kind = "e2e" -> E2EBytes
                 [] id.kind = "draw" -> DrawBytes(id.a, id.b, id.c, id.d)
                 [] id.kind = "drawend" -> DrawEndBytes
                 [] id.kind = "keywait" -> KeyWaitBytes
                 [] id.kind = "nest" -> NestBytes(id.a)
                 [] id.kind = "ret" -> RetBytes
                 [] id.kind = "op" -> OpBytes(id.a, id.b, id.c)
                 [] id.kind = "timers" -> TimerBytes(id.a, id.b)
                 [] id.kind = "keytest" -> KeyTestBytes
                 [] id.kind = "regs" -> RegsBytes(id.a, id.b, id.c, id.d)
                 [] id.kind = "bcd" -> BcdBytes(id.a)
                 [] id.kind = "timerread" -> TimerReadBytes(id.a, id.b)
                 [] id.kind = "edge" -> EdgeBytes(id.a)
                 [] id.kind = "jumpend" -> JumpEndBytes
                 [] id.kind = "jumpv0" -> JumpV0Bytes
                 [] id.kind = "addi" -> AddIBytes
                 [] id.kind = "addirun" -> AddIRunBytes(id.a)
                 [] id.kind = "glyph" -> GlyphBytes(id.a)
                 [] OTHER -> << >> ]

DrawPositions == {<<0, 0>>, <<60, 30>>, <<63, 31>>, <<200, 100>>, <<255, 255>>}
DrawSpritePairs ==
  {<<1, 2>>, <<3, 2>>, <<1, 3>>, <<4, 5>>, <<5, 4>>, <<0, 1>>, <<2, 2>>, <<5, 5>>}

LoadFiles ==
  {Rom("missing", 0, 0, 0, 0), Rom("work", 0, 0, 0, 0)}
    \cup {Rom("fill", len, 0, 0, 0) : len \in {0, 3583, 3584, 3585}}

ProgramFiles ==
  {Rom("e2e", 0, 0, 0, 0), Rom("keywait", 0, 0, 0, 0), Rom("ret", 0, 0, 0, 0)}
    \cup {Rom("nest", k, 0, 0, 0) : k \in {1, 2, 15, 16}}

DrawFiles ==
  {Rom("drawend", 0, 0, 0, 0)}
    \cup {Rom("draw", p[1], p[2], s[1], s[2]) :
            p \in DrawPositions, s \in DrawSpritePairs}

\* Register values and register pairs <<x, y>> of the arithmetic programs.
AluValues == {0, 1, 129, 255}
AluPairs == {<<1, 2>>, <<1, 1>>, <<1, 15>>, <<15, 2>>, <<15, 15>>}

\* 8xy4, 8xy5, 8xy7 on every pair and all values (one value when x = y);
\* 8xy6, 8xyE and 7xkk on V1 and V15; the four skips with equal and unequal
\* operands.
AluFiles ==
  {Rom("op", 32768 + 256 * q[1][1] + 16 * q[1][2] + q[2], q[3], q[4], 0) :
     q \in {r \in AluPairs \X {4, 5, 7} \X AluValues \X AluValues :
              r[1][1] # r[1][2] \/ r[3] = r[4]}}
    \cup {Rom("op", 32768 + 256 * x + 32 + nn, b, 3, 0) :
            x \in {1, 15}, nn \in {6, 14}, b \in AluValues}
    \cup {Rom("op", 28672 + 256 * x + kk, b, 7, 0) :
            x \in {1, 15}, kk \in {0, 1, 255}, b \in AluValues}
    \cup {Rom("op", o + 256 + kk, b, 3, 0) :
            o \in {12288, 16384}, kk \in {1, 129}, b \in {1, 129}}
    \cup {Rom("op", o + 256 + 16 * y, b, c, 0) :
            o \in {20480, 36864}, y \in {1, 2}, b \in {1, 129}, c \in {1, 129}}

\* One opcode of every other pattern of the dispatch (00E0, 120A, 2208,
\* 00EE, B204, 6155, A123, 8120..8123, D125, E19E, E1A1, F107, F10A, F115,
\* F118, F11E, F129, F133, F155, F165), the random instruction (C1FF,
\* C10F) ...
TableOpcodes ==
  {224, 4618, 8712, 238, 45572, 24917, 41251, 33056, 33057, 33058, 33059,
   53541, 57758, 57761, 61703, 61706, 61717, 61720, 61726, 61737, 61747,
   61781, 61797}
RandomOpcodes == {49663, 49423}
\* ... and opcodes outside the instruction table (0000, 01E0, 0FEE, 00E1,
\* 5121, 9125, 8128, 812F, E19F, E1A0, F100, F1FF, F166).
OtherOpcodes ==
  {0, 480, 4078, 225, 20769, 37157, 33064, 33071, 57759, 57760, 61696,
   61951, 61798}

OpFiles ==
  AluFiles
    \cup {Rom("op", opcode, b, 3, 0) :
            opcode \in TableOpcodes \cup OtherOpcodes, b \in {9, 200}}
    \cup {Rom("op", opcode, 9, 3, 0) : opcode \in RandomOpcodes}
    \cup {Rom("timers", dt, st, 0, 0) : dt \in {0, 1, 3}, st \in {0, 2}}
    \cup {Rom("keytest", 0, 0, 0, 0)}

\* Programs of several instructions: register store / load round trips,
\* decimal digits, timer reads, and memory addresses at the end of memory
\* (F033, F055, F155, F065, F165, D011, D012 with I = 0xFFF).
SeqFiles ==
  {Rom("regs", x, v[1], v[2], v[3]) :
     x \in {0, 2, 15}, v \in {<<1, 2, 3>>, <<255, 0, 129>>}}
    \cup {Rom("bcd", v, 0, 0, 0) : v \in {0, 7, 10, 99, 100, 199, 255}}
    \cup {Rom("timerread", dt, st, 0, 0) : dt \in {0, 3}, st \in {0, 2}}
    \cup {Rom("edge", opcode, 0, 0, 0) :
            opcode \in {61491, 61525, 61781, 61541, 61797, 53265, 53266}}
    \cup {Rom("jumpend", 0, 0, 0, 0), Rom("jumpv0", 0, 0, 0, 0),
          Rom("addi", 0, 0, 0, 0)}

\* The font programs (every digit, and two values that are no digit), one-row
\* sprites drawn at coordinates held in VF (DF11, D1F1, DFF1, and D121 for
\* comparison), and the 8xy4 programs with sums around 0x10 and 0xFF.
FontFiles ==
  {Rom("glyph", d, 0, 0, 0) : d \in (0..15) \cup {16, 255}}
    \cup {Rom("op", opcode, v[1], v[2], 0) :
            opcode \in {57105, 53745, 57329, 53537},
            v \in {<<9, 3>>, <<200, 100>>, <<0, 0>>}}
    \cup {f \in AluFiles : f.a \div 4096 = 8 /\ f.a % 16 = 4}
    \cup {Rom("op", 33060, b, 1, 0) : b \in {15, 16, 254}}

\* The programs that keep adding to I.
LongFiles == {Rom("addirun", v, 0, 0, 0) : v \in {128, 255}}

\* The file behind each name, as a table.
FileTable ==
  [id \in LoadFiles \cup ProgramFiles \cup DrawFiles \cup OpFiles \cup SeqFiles
            \cup LongFiles \cup FontFiles \cup {NoRom} |->
     FileBytes(id)]
FileOf(id) == FileTable[id]

\* The keys the host presses and releases.
PressableKeys == {0, 9}
DrawKeys == {9}

\* ------------------------------------------------------------ the driver
\* call is the last operation called on the machine, prev the machine before
\* that call and result what the last load returned; rom names the file last
\* passed to load, nloads counts the load calls and ncycles the cycle calls
\* since the last successful load.
Init ==
  /\ chip8 = new
  /\ panic = "none"
  /\ result = <<"none", 0>>
  /\ overflow_checks \in BOOLEAN
  /\ call = "new"
  /\ prev = new
  /\ rom = NoRom
  /\ nloads = 0
  /\ ncycles = 0

\* chip8.load(path): at most `limit` calls.
Load(files, limit) ==
  /\ panic = "none"
  /\ nloads < limit
  /\ \E id \in files :
       LET file == FileOf(id)
           ok == load_result(file)[1] = "Ok"
       IN  /\ chip8' = load(chip8, file)
           /\ result' = load_result(file)
           /\ rom' = id
           /\ ncycles' = IF ok THEN 0 ELSE ncycles
  /\ nloads' = nloads + 1
  /\ call' = "load"
  /\ prev' = chip8
  /\ UNCHANGED <<panic, overflow_checks>>

\* The values rand_dist.sample can return, when the instruction is Cxkk.
RandomBytes(m) ==
  IF m.pc + 1 < MEMORY_SIZE /\ field_o(opcode_at(m)) = 12 /\ ~m.tmp
  THEN 0..254 ELSE {0}

\* chip8.cycle(), at most `limit` calls after a load.
CycleUpTo(limit) ==
  /\ panic = "none"
  /\ ncycles < limit
  /\ \E random \in RandomBytes(chip8) :
       LET r == cycle(chip8, random, overflow_checks)
       IN  /\ chip8' = r.chip8
           /\ panic' = r.panic
  /\ ncycles' = ncycles + 1
  /\ call' = "cycle"
  /\ prev' = chip8
  /\ UNCHANGED <<result, overflow_checks, rom, nloads>>

Cycle == CycleUpTo(MaxCycles)

\* chip8.timer()
Timer ==
  /\ panic = "none"
  /\ chip8' = timer(chip8)
  /\ call' = "timer"
  /\ prev' = chip8
  /\ UNCHANGED <<panic, result, overflow_checks, rom, nloads, ncycles>>

\* The host's key events: chip8.keys[k] = true / false.
KeyPress(pressable) ==
  /\ panic = "none"
  /\ \E k \in pressable : chip8' = [chip8 EXCEPT !.keys[k] = TRUE]
  /\ call' = "press"
  /\ prev' = chip8
  /\ UNCHANGED <<panic, result, overflow_checks, rom, nloads, ncycles>>

KeyRelease(pressable) ==
  /\ panic = "none"
  /\ \E k \in pressable : chip8' = [chip8 EXCEPT !.keys[k] = FALSE]
  /\ call' = "release"
  /\ prev' = chip8
  /\ UNCHANGED <<panic, result, overflow_checks, rom, nloads, ncycles>>

\* The host of chip8_wgpu: one load, then cycles, timer ticks and key events.
Next ==
  \/ Load(ProgramFiles, 1)
  \/ Cycle
  \/ Timer
  \/ KeyPress(PressableKeys)
  \/ KeyRelease(PressableKeys)

Spec == Init /\ [][Next]_vars

\* A client that loads again while the machine runs.
NextReload ==
  \/ Load(LoadFiles, MaxLoads)
  \/ Cycle
  \/ Timer
  \/ KeyPress(DrawKeys)
  \/ KeyRelease(DrawKeys)

SpecReload == Init /\ [][NextReload]_vars

\* The host running the sprite programs.
NextDraw ==
  \/ Load(DrawFiles, 1)
  \/ Cycle
  \/ Timer
  \/ KeyPress(DrawKeys)
  \/ KeyRelease(DrawKeys)

SpecDraw == Init /\ [][NextDraw]_vars

\* The host running the single-instruction programs.
NextOps ==
  \/ Load(OpFiles, 1)
  \/ Cycle
  \/ Timer
  \/ KeyPress(DrawKeys)
  \/ KeyRelease(DrawKeys)

SpecOps == Init /\ [][NextOps]_vars

\* The host running the programs of several instructions.
NextSeq ==
  \/ Load(SeqFiles, 1)
  \/ Cycle
  \/ Timer
  \/ KeyPress(DrawKeys)
  \/ KeyRelease(DrawKeys)

SpecSeq == Init /\ [][NextSeq]_vars

\* A host that lets a long program run; no key is pressed.
NextLong ==
  \/ Load(LongFiles, 1)
  \/ CycleUpTo(MaxLongCycles)
  \/ Timer

SpecLong == Init /\ [][NextLong]_vars

\* The host running the font, flag-register sprite and addition programs; no
\* key is pressed.
NextFont ==
  \/ Load(FontFiles, 1)
  \/ Cycle
  \/ Timer

SpecFont == Init /\ [][NextFont]_vars

\* The host of Spec, which keeps calling cycle.
SpecFair == Spec /\ WF_vars(Cycle)

\* ------------------------------------------------------------ properties
\* The last call was a cycle that fetched an instruction; LastOp is the
\* opcode it fetched.
Ran == call = "cycle" /\ ~prev.tmp /\ prev.pc + 1 < MEMORY_SIZE
LastOp == opcode_at(prev)
Blank == [p \in 1..DISPLAY_SIZE |-> FALSE]
LoadedOk == call = "load" /\ result[1] = "Ok"
Image == FileOf(rom).bytes

C2_LoadFrame ==
  LoadedOk =>
     /\ LET image == Image
            size == Len(image)
        IN  \A a \in 0..(MEMORY_SIZE - 1) :
              Mem(chip8, a) = IF a >= 512 /\ a < 512 + size
                                THEN image[a - 511] ELSE Mem(prev, a)
     /\ chip8.pc = 512
     /\ chip8.V = prev.V
     /\ chip8.I = prev.I
     /\ chip8.stack = prev.stack
     /\ chip8.sp = prev.sp
     /\ chip8.display = prev.display
     /\ chip8.DT = prev.DT
     /\ chip8.ST = prev.ST
     /\ chip8.keys = prev.keys

\* C2 witness: a 3583-byte image was loaded into a machine whose registers,
\* stack and memory a program had changed.
C2_Witness ==
  /\ LoadedOk
  /\ nloads = 2
  /\ Len(Image) = 3583
  /\ prev.V[10] = 42
  /\ prev.stack[1] = 516
  /\ Mem(prev, 778) = 42
  /\ Mem(chip8, 778) = Image[267]
  /\ chip8.V[10] = 42

\* C3: after a second load the program counter is 0x200 and program memory
\* 0x200..0xFFF equals what loading the same image into a new machine gives,
\* also when the new image is shorter; registers and stack keep their values.
C3_ReloadEqualsFreshLoad ==
  (LoadedOk /\ nloads = 2) =>
     /\ chip8.pc = 512
     /\ LET fresh == load(new, FileOf(rom))
        IN  \A a \in 512..4095 : Mem(chip8, a) = Mem(fresh, a)
     /\ chip8.V = prev.V
     /\ chip8.stack = prev.stack
     /\ chip8.sp = prev.sp

\* C4 (as claimed): a new machine loaded with 6005 8105 3205 00E0 has, after
\* exactly three cycle calls, skipped the instruction at 0x206 (pc = 0x208),
\* left the display unchanged, and V0 = V1 = 5.
C4_E2ESkipsClear ==
  (rom = Rom("e2e", 0, 0, 0, 0) /\ result[1] = "Ok" /\ nloads = 1 /\ ncycles = 3) =>
     /\ chip8.pc = 520
     /\ chip8.display = Blank
     /\ chip8.V[0] = 5
     /\ chip8.V[1] = 5

\* C4 (amended): on a new machine loaded with 6005 8105 3205 00E0 the
\* display stays blank and V0 = 5 from the first cycle on; 8105 is
\* V1 := V1 - V0, which underflows: with overflow checks the second cycle
\* panics (pc = 0x204) and there is no third, without them V1 = 251 and
\* V15 = 0; 3205 tests V2 = 0 and does not skip, so after exactly three
\* cycle calls pc = 0x206 (00E0 is neither skipped nor executed yet).
C4_E2EAmended ==
  (rom = Rom("e2e", 0, 0, 0, 0) /\ result[1] = "Ok" /\ nloads = 1 /\ ncycles <= 3) =>
     /\ chip8.display = Blank
     /\ (ncycles >= 1) => chip8.V[0] = 5
     /\ (ncycles >= 2 /\ overflow_checks) =>
           (ncycles = 2 /\ panic = "overflow" /\ chip8.pc = 516 /\ chip8.V[1] = 0)
     /\ (ncycles >= 2 /\ ~overflow_checks) =>
           (panic = "none" /\ chip8.V[1] = 251 /\ chip8.V[15] = 0)
     /\ (ncycles = 3) => (chip8.pc = 518 /\ chip8.V[2] = 0)

\* C4 witness: the third cycle call has returned with pc = 0x206.
C4_Witness ==
  /\ rom = Rom("e2e", 0, 0, 0, 0)
  /\ nloads = 1
  /\ ncycles = 3
  /\ call = "cycle"
  /\ chip8.pc = 518
  /\ chip8.V[0] = 5
  /\ chip8.V[1] = 251

\* The last call executed Dxyn; its n and the coordinates Vx, Vy it read.
IsDRW == Ran /\ field_o(LastOp) = 13
DrwN == field_n(LastOp)
DrwX == prev.V[field_x(LastOp)]
DrwY == prev.V[field_y(LastOp)]

\* Bit b (0 = most significant, leftmost) of sprite row r, and the pixel it
\* is aimed at, as the instruction's description has them.
SpriteBit(m, r, b) == (Mem(m, m.I + r) \div Pow2(7 - b)) % 2 = 1
Target(vx, vy, r, b) == ((vx + b) % 64) + (64 * ((vy + r) % 32))
SpriteOn(m, n) == {q \in (0..(n - 1)) \X (0..7) : SpriteBit(m, q[1], q[2])}

\* C5: after Dxyn, V15 is 1 exactly when some on pixel of the n-row sprite
\* lands on a pixel that was on before the instruction, over all rows and
\* columns; otherwise it is 0.
C5_CollisionFlag ==
  (IsDRW /\ panic = "none") =>
     chip8.V[15] =
       IF \E q \in SpriteOn(prev, DrwN) :
            Pixel(prev, Target(DrwX, DrwY, q[1], q[2]))
       THEN 1 ELSE 0

\* C5 witness: a sprite of several rows collided in an earlier row and not
\* in its last row, and V15 is 1.
C5_Witness ==
  /\ IsDRW
  /\ panic = "none"
  /\ DrwN >= 2
  /\ \E q \in SpriteOn(prev, DrwN) :
       q[1] < DrwN - 1 /\ Pixel(prev, Target(DrwX, DrwY, q[1], q[2]))
  /\ \E b \in 0..7 : SpriteBit(prev, DrwN - 1, b)
  /\ \A b \in 0..7 :
       ~(SpriteBit(prev, DrwN - 1, b) /\ Pixel(prev, Target(DrwX, DrwY, DrwN - 1, b)))
  /\ chip8.V[15] = 1

\* C6: Dxyn XORs bit b of row r into the pixel at column (Vx + b) mod 64, row
\* (Vy + r) mod 32, wrapping and never clipping, and leaves every other pixel
\* as it was.  (No two bits of a sprite of at most 15 rows and 8 columns aim
\* at the same pixel.)
C6_DrawXorWrap ==
  (IsDRW /\ panic = "none") =>
     LET hits == {Target(DrwX, DrwY, q[1], q[2]) : q \in SpriteOn(prev, DrwN)}
     IN  \A p \in 0..(DISPLAY_SIZE - 1) :
           Pixel(chip8, p) = (Pixel(prev, p) # (p \in hits))

\* C6 witness: a sprite drawn at (60, 30) on a blank display lit pixels in
\* column 60 of rows 30 and 31 and, wrapped, in column 3 of rows 31 and 0.
C6_Witness ==
  /\ IsDRW
  /\ panic = "none"
  /\ DrwX = 60
  /\ DrwY = 30
  /\ DrwN = 3
  /\ prev.display = Blank
  /\ Pixel(chip8, 60 + 64 * 30)
  /\ Pixel(chip8, 60 + 64 * 31)
  /\ Pixel(chip8, 3 + 64 * 31)
  /\ Pixel(chip8, 3)

\* C7: the same Dxyn (x, y other than 15, same I and sprite bytes) executed
\* twice in a row restores the display to what it was before the first draw;
\* if the display was blank under the sprite and the sprite has an on bit,
\* the first draw leaves V15 = 0 and the second V15 = 1 with those pixels off.
C7_DrawTwiceRestores ==
  [][ ( /\ IsDRW
        /\ panic = "none"
        /\ field_x(LastOp) # 15
        /\ field_y(LastOp) # 15
        /\ call' = "cycle"
        /\ panic' = "none"
        /\ chip8.pc + 1 < MEMORY_SIZE
        /\ opcode_at(chip8) = LastOp
        /\ chip8.I = prev.I
        /\ \A r \in 0..(DrwN - 1) : Mem(chip8, chip8.I + r) = Mem(prev, prev.I + r) )
      =>
      ( /\ chip8'.display = prev.display
        /\ ( /\ SpriteOn(prev, DrwN) # {}
             /\ \A q \in SpriteOn(prev, DrwN) :
                  ~Pixel(prev, Target(DrwX, DrwY, q[1], q[2])) )
           => ( /\ chip8.V[15] = 0
                /\ chip8'.V[15] = 1
                /\ \A q \in SpriteOn(prev, DrwN) :
                     ~Pixel(chip8', Target(DrwX, DrwY, q[1], q[2])) ) )
    ]_vars

\* C7 witness: the second of two equal draws has run: the first had found
\* the display blank (V15 = 0) and lit it, the second set V15 = 1 and left
\* the display blank again.
C7_Witness ==
  /\ IsDRW
  /\ panic = "none"
  /\ DrwN >= 1
  /\ prev.pc >= 2
  /\ Mem(prev, prev.pc - 2) * 256 + Mem(prev, prev.pc - 1) = LastOp
  /\ prev.V[15] = 0
  /\ prev.display # Blank
  /\ chip8.V[15] = 1
  /\ chip8.display = Blank

\* The machine is about to execute Fx0A / has just executed it.
AtLDK(m) ==
  /\ ~m.tmp
  /\ m.pc + 1 < MEMORY_SIZE
  /\ field_o(opcode_at(m)) = 15
  /\ field_kk(opcode_at(m)) = 10
NoKey(m) == \A k \in 0..(KEY_COUNT - 1) : ~m.keys[k]
LowestKey(m) ==
  CHOOSE k \in 0..(KEY_COUNT - 1) :
    m.keys[k] /\ \A j \in 0..(k - 1) : ~m.keys[j]

\* C8: a cycle that executes Fx0A with no key pressed leaves the whole
\* machine as it was (so the next cycle executes Fx0A again); with a key
\* pressed, Vx becomes the lowest pressed index and pc is the address of the
\* next instruction.
C8_KeyWait ==
  [][ (call' = "cycle" /\ AtLDK(chip8)) =>
        /\ panic' = "none"
        /\ IF NoKey(chip8)
           THEN chip8' = chip8 /\ AtLDK(chip8')
           ELSE /\ chip8'.V[field_x(opcode_at(chip8))] = LowestKey(chip8)
                /\ chip8'.pc = chip8.pc + 2
    ]_vars

\* C8 witness: F30A was executed at least twice in the key-wait program;
\* the last time keys 0 and 9 were both down, V3 received 0 and pc moved on.
C8_Witness ==
  /\ Ran
  /\ LastOp = 62218
  /\ rom = Rom("keywait", 0, 0, 0, 0)
  /\ ncycles >= 3
  /\ prev.keys[0]
  /\ prev.keys[9]
  /\ prev.V[3] = 7
  /\ chip8.V[3] = 0
  /\ chip8.pc = prev.pc + 2

\* C9 (as stated): 00EE with the stack pointer at 0 is an error that neither
\* loads pc from a stack slot nor changes the stack pointer.
C9_ReturnOnEmptyStackIsError ==
  (Ran /\ field_o(LastOp) = 0 /\ field_kk(LastOp) = 238 /\ prev.sp = 0) =>
     /\ panic # "none"
     /\ chip8.pc \in {prev.pc, prev.pc + 2}
     /\ chip8.sp = 0

\* C10 (as stated): a 2nnn executed with fewer than 16 calls outstanding
\* succeeds and makes the depth one more.
C10_SixteenNestedCalls ==
  (Ran /\ field_o(LastOp) = 2 /\ prev.sp < STACK_SIZE) =>
     /\ panic = "none"
     /\ chip8.sp = prev.sp + 1
     /\ chip8.sp <= STACK_SIZE

\* The register nibbles of the last opcode and the values the registers
\* held before it.
OpX == field_x(LastOp)
OpY == field_y(LastOp)
OldVx == prev.V[OpX]
OldVy == prev.V[OpY]
IsArith == Ran /\ field_o(LastOp) = 8 /\ field_n(LastOp) \in {4, 5, 7}
IsShift == Ran /\ field_o(LastOp) = 8 /\ field_n(LastOp) \in {6, 14}

\* C11 (as stated): for x other than 15 and every y, 8xy4 leaves
\* Vx = (Vx + Vy) mod 256, 8xy5 leaves (Vx - Vy) mod 256 and 8xy7 leaves
\* (Vy - Vx) mod 256, computed from the operands before the instruction.
C11_ArithmeticWraps ==
  (IsArith /\ OpX # 15) =>
     chip8.V[OpX] =
       CASE field_n(LastOp) = 4 -> (OldVx + OldVy) % 256
         [] field_n(LastOp) = 5 -> (OldVx + 256 - OldVy) % 256
         [] field_n(LastOp) = 7 -> (OldVy + 256 - OldVx) % 256

\* C12 (as stated): after 8xy4, 8xy5, 8xy7 the flag V15 is the carry /
\* no-borrow bit of the operands before the instruction, for every x and y.
C12_FlagIsCarry ==
  IsArith =>
     chip8.V[15] =
       CASE field_n(LastOp) = 4 -> (IF OldVx + OldVy > 255 THEN 1 ELSE 0)
         [] field_n(LastOp) = 5 -> (IF OldVx >= OldVy THEN 1 ELSE 0)
         [] field_n(LastOp) = 7 -> (IF OldVy >= OldVx THEN 1 ELSE 0)

\* C13 (as stated): after 8xy6 V15 is the old least-significant bit of Vx,
\* after 8xyE the old most-significant bit, for every x; for x other than 15
\* Vx is the old Vx shifted by one.
C13_ShiftFlag ==
  IsShift =>
     /\ panic = "none"
     /\ chip8.V[15] = (IF field_n(LastOp) = 6 THEN OldVx % 2 ELSE OldVx \div 128)
     /\ OpX # 15 =>
          chip8.V[OpX] = (IF field_n(LastOp) = 6 THEN OldVx \div 2
                                                 ELSE (OldVx * 2) % 256)

\* C14 (as stated): 7xkk completes for every Vx and kk and leaves
\* Vx = (Vx + kk) mod 256; for x other than 15 V15 is unchanged.
C14_AddByteWraps ==
  (Ran /\ field_o(LastOp) = 7) =>
     /\ panic = "none"
     /\ chip8.V[OpX] = (OldVx + field_kk(LastOp)) % 256
     /\ OpX # 15 => chip8.V[15] = prev.V[15]

\* The instruction table with its patterns read on all four nibbles.
InTable(opcode) ==
  LET o == field_o(opcode)
      n == field_n(opcode)
      kk == field_kk(opcode)
  IN  \/ opcode \in {224, 238}
      \/ o \in {1, 2, 3, 4, 6, 7, 10, 11, 12, 13}
      \/ o \in {5, 9} /\ n = 0
      \/ o = 8 /\ n \in (0..7) \cup {14}
      \/ o = 14 /\ kk \in {158, 161}
      \/ o = 15 /\ kk \in {7, 10, 21, 24, 30, 41, 51, 85, 101}

\* C15 (as stated): a cycle that fetches an opcode outside the instruction
\* table ends in the fatal decode error; the opcode is not executed.
C15_UnknownOpcodeIsFatal ==
  (Ran /\ ~InTable(LastOp)) =>
     /\ panic = "unimplemented"
     /\ chip8 = [prev EXCEPT !.pc = prev.pc + 2]

\* C16: a timer call leaves DT = max(DT - 1, 0) and ST = max(ST - 1, 0),
\* each on its own, and changes nothing else of the machine; a timer at 0
\* stays 0.
C16_TimerFrame ==
  call = "timer" =>
     /\ panic = "none"
     /\ chip8 = [prev EXCEPT !.DT = IF prev.DT > 0 THEN prev.DT - 1 ELSE 0,
                            !.ST = IF prev.ST > 0 THEN prev.ST - 1 ELSE 0]
     /\ chip8.DT \in 0..255
     /\ chip8.ST \in 0..255

\* C16 witness: a tick found the delay timer at 0 and the sound timer
\* running in a program that had set both; DT stayed 0, ST went down by one.
C16_Witness ==
  /\ call = "timer"
  /\ rom = Rom("timers", 1, 2, 0, 0)
  /\ prev.V[0] = 1
  /\ prev.DT = 0
  /\ prev.ST = 1
  /\ chip8.DT = 0
  /\ chip8.ST = 0

\* The opcode at the old program counter, high byte first, and whether the
\* instruction is one that sets the program counter itself.
FetchedBE == Mem(prev, prev.pc) * 256 + Mem(prev, prev.pc + 1)
SkipTaken(opcode) ==
  LET o == field_o(opcode)
      vx == prev.V[field_x(opcode)]
      vy == prev.V[field_y(opcode)]
      kk == field_kk(opcode)
  IN  \/ o = 3 /\ vx = kk
      \/ o = 4 /\ vx # kk
      \/ o = 5 /\ field_n(opcode) = 0 /\ vx = vy
      \/ o = 9 /\ field_n(opcode) = 0 /\ vx # vy
      \/ o = 14 /\ kk = 158 /\ vx < KEY_COUNT /\ prev.keys[vx]
      \/ o = 14 /\ kk = 161 /\ vx < KEY_COUNT /\ ~prev.keys[vx]
SetsPc(opcode) ==
  \/ field_o(opcode) \in {1, 2, 11}
  \/ field_o(opcode) = 0 /\ field_kk(opcode) = 238
  \/ SkipTaken(opcode)
  \/ field_o(opcode) = 15 /\ field_kk(opcode) = 10 /\ NoKey(prev)

\* C17: no cycle call returns early (tmp is never set); a cycle decodes the
\* big-endian opcode at pc (a 1nnn so decoded jumps to nnn, a 6xkk so
\* decoded loads kk into Vx) and every
\* instruction other than 1nnn, 2nnn, 00EE, Bnnn, a taken skip or a waiting
\* Fx0A leaves pc = old pc + 2.
C17_OneInstructionPerCycle ==
  /\ ~chip8.tmp
  /\ (call = "cycle" /\ prev.pc + 1 < MEMORY_SIZE) =>
       /\ ~SetsPc(FetchedBE) => chip8.pc = prev.pc + 2
       /\ field_o(FetchedBE) = 1 =>
            (panic = "none" /\ chip8 = [prev EXCEPT !.pc = field_nnn(FetchedBE)])
       /\ field_o(FetchedBE) = 6 =>
            /\ panic = "none"
            /\ chip8 = [prev EXCEPT !.pc = prev.pc + 2,
                                   !.V[field_x(FetchedBE)] = field_kk(FetchedBE)]
       /\ ~InTable(FetchedBE) /\ field_o(FetchedBE) # 0 => panic # "none"

\* C17 witness: a cycle fetched A1 23 at 0x204, set I to 0x123 and left
\* pc at 0x206.
C17_Witness ==
  /\ call = "cycle"
  /\ ~prev.tmp
  /\ prev.pc = 516
  /\ Mem(prev, 516) = 161
  /\ Mem(prev, 517) = 35
  /\ chip8.I = 291
  /\ chip8.pc = 518
  /\ panic = "none"

\* The last instruction was 3xkk, 4xkk, 5xy0 or 9xy0; its condition on the
\* registers before it.
IsSkip ==
  /\ Ran
  /\ \/ field_o(LastOp) \in {3, 4}
     \/ field_o(LastOp) \in {5, 9} /\ field_n(LastOp) = 0
SkipCondition ==
  CASE field_o(LastOp) = 3 -> OldVx = field_kk(LastOp)
    [] field_o(LastOp) = 4 -> OldVx # field_kk(LastOp)
    [] field_o(LastOp) = 5 -> OldVx = OldVy
    [] field_o(LastOp) = 9 -> OldVx # OldVy

\* C18: a skip instruction leaves pc = old pc + 4 when its condition holds
\* and old pc + 2 otherwise and changes nothing else; from any one state
\* exactly one of 3xkk/4xkk and exactly one of 5xy0/9xy0 skips.
C18_Skips ==
  /\ IsSkip =>
       /\ panic = "none"
       /\ chip8 = [prev EXCEPT !.pc = prev.pc + (IF SkipCondition THEN 4 ELSE 2)]
  /\ \A x \in 0..(V_COUNT - 1) :
       /\ \A kk \in {0, 1, 129, 255} :
            (op_SE_byte(chip8, x, kk).chip8.pc = chip8.pc + 2)
              # (op_SNE_byte(chip8, x, kk).chip8.pc = chip8.pc + 2)
       /\ \A y \in 0..(V_COUNT - 1) :
            (op_SE_reg(chip8, x, y).chip8.pc = chip8.pc + 2)
              # (op_SNE_reg(chip8, x, y).chip8.pc = chip8.pc + 2)

\* C18 witness: 4181 with V1 = 129 did not skip (pc 0x206).
C18_Witness ==
  /\ IsSkip
  /\ LastOp = 16769
  /\ OldVx = 129
  /\ prev.pc = 516
  /\ chip8.pc = 518
  /\ panic = "none"

\* C19: load, cycle and timer never write the key latch; it changes only by
\* the host's key events.
C19_KeysOnlyByDriver ==
  [][ call' \in {"load", "cycle", "timer"} => chip8'.keys = chip8.keys ]_vars

\* C19 witness: with key 9 down, F10A has read the latch (V1 went from 200
\* to 9) and key 9 is still down.
C19_Witness ==
  /\ Ran
  /\ panic = "none"
  /\ prev.keys[9]
  /\ chip8.keys[9]
  /\ rom = Rom("op", 61706, 200, 3, 0)
  /\ LastOp = 61706
  /\ chip8.V[1] = 9
  /\ chip8.pc = prev.pc + 2

\* The machine is about to execute Cxkk.
AtRND(m) == ~m.tmp /\ m.pc + 1 < MEMORY_SIZE /\ field_o(opcode_at(m)) = 12

\* C20 (as stated): the values Cxkk can leave in Vx are exactly r AND kk for
\* r over the full byte range 0..255 (CxFF can leave every byte, 255
\* included).
C20_RandomFullRange ==
  (AtRND(chip8) /\ panic = "none") =>
     LET x == field_x(opcode_at(chip8))
         kk == field_kk(opcode_at(chip8))
     IN  {cycle(chip8, r, overflow_checks).chip8.V[x] : r \in RandomBytes(chip8)}
           = {BitAnd(r, kk) : r \in 0..255}

\* The last instruction was Fx55 / Fx65.
IsStoreRegs == Ran /\ field_o(LastOp) = 15 /\ field_kk(LastOp) = 85
IsLoadRegs == Ran /\ field_o(LastOp) = 15 /\ field_kk(LastOp) = 101

\* C21: Fx55 copies V0..Vx (x included) to memory[I..I+x], Fx65 copies
\* memory[I..I+x] to V0..Vx; I, the registers above Vx and the rest of
\* memory keep their values, and in the round-trip programs Fx65 brings back
\* the values that Fx55 stored before V0..V3 were overwritten.
C21_StoreLoadRegisters ==
  /\ (IsStoreRegs /\ panic = "none") =>
       chip8 = [prev EXCEPT
                  !.pc = prev.pc + 2,
                  !.memory = [a \in 1..MEMORY_SIZE |->
                                IF a - 1 >= prev.I /\ a - 1 <= prev.I + OpX
                                THEN prev.V[a - 1 - prev.I]
                                ELSE prev.memory[a]]]
  /\ (IsLoadRegs /\ panic = "none") =>
       /\ chip8 = [prev EXCEPT
                     !.pc = prev.pc + 2,
                     !.V = [r \in 0..(V_COUNT - 1) |->
                              IF r <= OpX THEN Mem(prev, prev.I + r)
                              ELSE prev.V[r]]]
       /\ rom.kind = "regs" =>
            LET stored == <<rom.b, rom.c, rom.d, 119>>
                changed == <<238, 238, 238, 17>>
            IN  \A r \in 0..3 :
                  chip8.V[r] = IF r <= OpX THEN stored[r + 1] ELSE changed[r + 1]

\* C21 witness: F265 has restored V0..V2 to 255, 0, 129 after they had been
\* overwritten with 0xEE; V3 keeps its new value 0x11.
C21_Witness ==
  /\ IsLoadRegs
  /\ panic = "none"
  /\ OpX = 2
  /\ prev.I = 768
  /\ prev.V[0] = 238
  /\ prev.V[2] = 238
  /\ Mem(prev, 770) = 129
  /\ chip8.V[0] = 255
  /\ chip8.V[1] = 0
  /\ chip8.V[2] = 129
  /\ chip8.V[3] = 17

\* C22 (as stated): Fx1E completes for every reachable I and every Vx and
\* leaves I = (I + Vx) mod 65536, changing nothing else (the flag register
\* included).
C22_AddToIWraps ==
  (Ran /\ field_o(LastOp) = 15 /\ field_kk(LastOp) = 30) =>
     /\ panic = "none"
     /\ chip8 = [prev EXCEPT !.pc = prev.pc + 2,
                            !.I = (prev.I + OldVx) % 65536]

\* The last instruction was 2nnn / 00EE.
IsCALL == Ran /\ field_o(LastOp) = 2
IsRET == Ran /\ field_o(LastOp) = 0 /\ field_kk(LastOp) = 238

\* C23: 2nnn at address a pushes a + 2 and makes the depth one more; 00EE
\* (with 1..15 calls outstanding) resumes at the address pushed last and
\* makes the depth one less; in the nested-call programs the stack holds the
\* call sites' return addresses in call order, so the returns resume at the
\* call sites in reverse order.
C23_CallReturnLIFO ==
  /\ (IsCALL /\ panic = "none") =>
       chip8 = [prev EXCEPT !.sp = prev.sp + 1,
                           !.stack[prev.sp + 1] = prev.pc + 2,
                           !.pc = field_nnn(LastOp)]
  /\ (IsRET /\ prev.sp \in 1..(STACK_SIZE - 1)) =>
       /\ panic = "none"
       /\ chip8 = [prev EXCEPT !.pc = prev.stack[prev.sp], !.sp = prev.sp - 1]
  /\ (rom.kind = "nest" /\ result[1] = "Ok" /\ panic = "none") =>
       /\ chip8.sp \in 0..(STACK_SIZE - 1)
       /\ \A i \in 1..chip8.sp : chip8.stack[i] = PROGRAM_START + 4 * (i - 1) + 2
       /\ IsRET => chip8.pc = PROGRAM_START + 4 * (prev.sp - 1) + 2

\* C23 witness: 15 nested calls and 15 returns have run; the last return
\* resumed behind the first call, at 0x202, with the stack empty again.
C23_Witness ==
  /\ IsRET
  /\ panic = "none"
  /\ rom = Rom("nest", 15, 0, 0, 0)
  /\ ncycles = 30
  /\ prev.sp = 1
  /\ chip8.sp = 0
  /\ chip8.pc = 514

\* The last instruction was Fx33.
IsBCD == Ran /\ field_o(LastOp) = 15 /\ field_kk(LastOp) = 51

\* C24: Fx33 leaves the hundreds, tens and ones digits of Vx at memory[I],
\* memory[I+1], memory[I+2] (each in 0..9, 100*h + 10*t + o = Vx) and changes
\* no other memory byte, no register and not I; the digits are right for
\* every Vx in 0..255.
C24_DecimalDigits ==
  /\ (IsBCD /\ panic = "none") =>
       LET i == prev.I IN
       /\ \A k \in 0..2 : Mem(chip8, i + k) \in 0..9
       /\ 100 * Mem(chip8, i) + 10 * Mem(chip8, i + 1) + Mem(chip8, i + 2) = OldVx
       /\ chip8 = [prev EXCEPT
                     !.pc = prev.pc + 2,
                     !.memory = [a \in 1..MEMORY_SIZE |->
                                   IF a - 1 >= i /\ a - 1 <= i + 2
                                   THEN chip8.memory[a] ELSE prev.memory[a]]]
  /\ (LoadedOk /\ rom.kind = "bcd") =>
       \A v \in 0..255 :
         LET r == op_LD_B([chip8 EXCEPT !.V[0] = v, !.I = 768], 0) IN
         /\ r.panic = "none"
         /\ \A k \in 0..2 : Mem(r.chip8, 768 + k) \in 0..9
         /\ 100 * Mem(r.chip8, 768) + 10 * Mem(r.chip8, 769) + Mem(r.chip8, 770) = v

\* C24 witness: F033 with V0 = 199 and I = 0x300 stored 1, 9, 9.
C24_Witness ==
  /\ IsBCD
  /\ panic = "none"
  /\ OldVx = 199
  /\ prev.I = 768
  /\ Mem(chip8, 768) = 1
  /\ Mem(chip8, 769) = 9
  /\ Mem(chip8, 770) = 9
  /\ Mem(chip8, 771) = 0
  /\ chip8.V[0] = 199
  /\ chip8.I = 768

\* The machine is about to execute the class-F instruction with low byte kk.
AtF(m, kk) ==
  /\ ~m.tmp
  /\ m.pc + 1 < MEMORY_SIZE
  /\ field_o(opcode_at(m)) = 15
  /\ field_kk(opcode_at(m)) = kk
NextX == field_x(opcode_at(chip8))
Floor0(v) == IF v > 0 THEN v ELSE 0

\* k timer calls in a row.
RECURSIVE Ticks(_, _)
Ticks(m, k) == IF k = 0 THEN m ELSE Ticks(timer(m), k - 1)

\* C25: the delay timer is changed only by Fx15 (to Vx) and by timer calls
\* (down by one, not below 0), the sound timer only by Fx18 and timer calls,
\* and Fx07 reads the delay timer; so after Fx15 with value v, k timer calls
\* and cycles without Fx15, Fx07 reads max(v - k, 0).
C25_TimerCountdown ==
  [][ /\ call' = "cycle" =>
           /\ chip8'.DT = IF AtF(chip8, 21) THEN chip8.V[NextX] ELSE chip8.DT
           /\ chip8'.ST = IF AtF(chip8, 24) THEN chip8.V[NextX] ELSE chip8.ST
           /\ AtF(chip8, 7) => chip8'.V[NextX] = chip8.DT
           /\ (AtF(chip8, 21) /\ rom.kind = "timerread") =>
                \A j \in 0..2, l \in 0..2 :
                  LET m1 == cycle(chip8', 0, overflow_checks).chip8
                      m2 == cycle(Ticks(m1, j), 0, overflow_checks).chip8
                      m3 == cycle(Ticks(m2, l), 0, overflow_checks).chip8
                  IN  m3.V[2] = Floor0(chip8.V[NextX] - (j + l))
      /\ call' = "timer" =>
           /\ chip8'.DT = Floor0(chip8.DT - 1)
           /\ chip8'.ST = Floor0(chip8.ST - 1)
      /\ call' \in {"load", "press", "release"} =>
           /\ chip8'.DT = chip8.DT
           /\ chip8'.ST = chip8.ST
    ]_vars

\* C25 witness: F015 set the delay timer to 3, two timer calls came between
\* the following cycles, and F207 has read 1.
C25_Witness ==
  /\ Ran
  /\ panic = "none"
  /\ rom = Rom("timerread", 3, 2, 0, 0)
  /\ LastOp = 61959
  /\ chip8.V[0] = 3
  /\ chip8.V[2] = 1
  /\ chip8.DT = 1
  /\ chip8.ST = 1

\* The next instruction reads or writes a timer (Fx07, Fx15, Fx18).
AtTimerInstruction(m) == AtF(m, 7) \/ AtF(m, 21) \/ AtF(m, 24)

\* C26: in every state whose next instruction is not Fx07, Fx15 or Fx18,
\* cycle followed by timer gives the same machine as timer followed by
\* cycle (and cycle fails in the one order exactly when it fails in the
\* other).
C26_ClocksCommute ==
  (panic = "none" /\ ~AtTimerInstruction(chip8)) =>
     \A random \in RandomBytes(chip8) :
       LET a == cycle(chip8, random, overflow_checks)
           b == cycle(timer(chip8), random, overflow_checks)
       IN  /\ b.panic = a.panic
           /\ b.chip8 = timer(a.chip8)

\* C26 witness: both timers run and the next instruction is 6102; the tick
\* and the instruction each change the machine, and the two orders agree.
C26_Witness ==
  /\ panic = "none"
  /\ rom = Rom("timers", 1, 2, 0, 0)
  /\ chip8.DT = 1
  /\ chip8.pc = 516
  /\ opcode_at(chip8) = 24834
  /\ timer(chip8) # chip8
  /\ cycle(chip8, 0, overflow_checks).chip8 # chip8
  /\ timer(cycle(chip8, 0, overflow_checks).chip8)
       = cycle(timer(chip8), 0, overflow_checks).chip8
  /\ timer(cycle(chip8, 0, overflow_checks).chip8).V[1] = 2

\* C27 (as stated): every cycle call addresses memory inside 0..0xFFF: the
\* fetch at pc and pc + 1, and I + offset in Dxyn (n rows), Fx33 (3 bytes),
\* Fx55 and Fx65 (x + 1 bytes).
C27_MemoryAccessInBounds ==
  (call = "cycle" /\ ~prev.tmp) =>
     /\ prev.pc + 1 <= 4095
     /\ field_o(LastOp) = 13 /\ field_n(LastOp) > 0 =>
          prev.I + field_n(LastOp) - 1 <= 4095
     /\ field_o(LastOp) = 15 /\ field_kk(LastOp) = 51 => prev.I + 2 <= 4095
     /\ field_o(LastOp) = 15 /\ field_kk(LastOp) \in {85, 101} =>
          prev.I + OpX <= 4095

\* The last instruction was Ex9E or ExA1; key Vx was down before it.
IsKeySkip == Ran /\ field_o(LastOp) = 14 /\ field_kk(LastOp) \in {158, 161}
KeyWasDown == OldVx < KEY_COUNT /\ prev.keys[OldVx]

\* C28 (as stated): for every Vx in 0..255, Ex9E and ExA1 complete; Ex9E
\* skips (pc + 4) exactly when key Vx is pressed, ExA1 exactly when it is
\* not, and nothing but the program counter changes.
C28_KeySkipsComplete ==
  IsKeySkip =>
     /\ panic = "none"
     /\ chip8 = [prev EXCEPT
                   !.pc = prev.pc + (IF KeyWasDown = (field_kk(LastOp) = 158)
                                     THEN 4 ELSE 2)]

\* The machine waits at the Fx0A of the key-wait program (address 0x202).
AtWait == panic = "none" /\ AtLDK(chip8) /\ chip8.pc = 514
KeyDown == ~NoKey(chip8)

\* C29: under a host that keeps calling cycle, a machine waiting at Fx0A
\* (with cycle calls left) whose latch from then on always has a key down
\* eventually has its program counter behind the Fx0A; and a cycle at the
\* Fx0A with no key down leaves it waiting there.
C29_KeyWaitEnds ==
  /\ []((AtWait /\ ncycles < MaxCycles /\ []KeyDown) => <>(chip8.pc = 516))
  /\ [][(AtWait /\ ~KeyDown /\ call' = "cycle") => AtWait']_vars

\* C29 witness: the machine has waited at F30A and, with key 9 down, has
\* moved on to 0x204.
C29_Witness ==
  /\ Ran
  /\ panic = "none"
  /\ rom = Rom("keywait", 0, 0, 0, 0)
  /\ ncycles >= 4
  /\ prev.pc = 514
  /\ ~prev.keys[0]
  /\ prev.keys[9]
  /\ chip8.V[3] = 9
  /\ chip8.pc = 516

\* OR, AND and XOR of two bytes, bit by bit (kind 1, 2, 3 as in 8xy1..8xy3).
RECURSIVE Bitwise(_, _, _, _)
Bitwise(kind, a, b, i) ==
  IF i > 7 THEN 0
  ELSE LET p == (a \div Pow2(i)) % 2
           q == (b \div Pow2(i)) % 2
           bit == CASE kind = 1 -> (IF p + q >= 1 THEN 1 ELSE 0)
                    [] kind = 2 -> (IF p + q = 2 THEN 1 ELSE 0)
                    [] kind = 3 -> (IF p + q = 1 THEN 1 ELSE 0)
       IN  Pow2(i) * bit + Bitwise(kind, a, b, i + 1)
LogicResult(kind, a, b) == IF kind = 0 THEN b ELSE Bitwise(kind, a, b, 0)
LogicBytes == {0, 1, 3, 9, 15, 16, 85, 127, 128, 170, 200, 255}

\* The last instruction was 8xy0, 8xy1, 8xy2 or 8xy3.
IsLogic == Ran /\ field_o(LastOp) = 8 /\ field_n(LastOp) \in 0..3

\* C30: 8xy0 leaves Vx = Vy, 8xy1 Vx OR Vy, 8xy2 Vx AND Vy, 8xy3 Vx XOR Vy,
\* and nothing but Vx and the program counter changes (V15 included, for x
\* other than 15); the results are right for all operand bytes.
C30_LogicFrame ==
  /\ IsLogic =>
       /\ panic = "none"
       /\ chip8 = [prev EXCEPT
                     !.pc = prev.pc + 2,
                     !.V[OpX] = LogicResult(field_n(LastOp), OldVx, OldVy)]
  /\ (LoadedOk /\ rom.kind = "op" /\ rom.a \in 33056..33059) =>
       \A a \in LogicBytes, b \in LogicBytes :
         LET m == [chip8 EXCEPT !.V[1] = a, !.V[2] = b, !.V[15] = 1] IN
         /\ op_LD_reg(m, 1, 2) = Ok(SetV(m, 1, b))
         /\ op_OR(m, 1, 2) = Ok(SetV(m, 1, LogicResult(1, a, b)))
         /\ op_AND(m, 1, 2) = Ok(SetV(m, 1, LogicResult(2, a, b)))
         /\ op_XOR(m, 1, 2) = Ok(SetV(m, 1, LogicResult(3, a, b)))

\* C30 witness: 8123 with V1 = 9 and V2 = 3 left V1 = 10, V2 = 3.
C30_Witness ==
  /\ IsLogic
  /\ panic = "none"
  /\ LastOp = 33059
  /\ OldVx = 9
  /\ OldVy = 3
  /\ chip8.V[1] = 10
  /\ chip8.V[2] = 3
  /\ chip8.V[15] = 0
  /\ chip8.pc = prev.pc + 2

\* The last cycle executed 00E0.
IsCLS == Ran /\ LastOp = 224

\* C31: 00E0 turns all 2048 pixels off and advances the program counter by
\* 2; registers (the flag register too), I, memory, stack, stack pointer,
\* timers and keys are what they were before the instruction.
C31_ClearFrame ==
  IsCLS =>
    /\ panic = "none"
    /\ Len(chip8.display) = 2048
    /\ \A p \in 0..2047 : ~Pixel(chip8, p)
    /\ chip8.pc = prev.pc + 2
    /\ chip8.V = prev.V
    /\ chip8.I = prev.I
    /\ chip8.memory = prev.memory
    /\ chip8.stack = prev.stack
    /\ chip8.sp = prev.sp
    /\ chip8.DT = prev.DT
    /\ chip8.ST = prev.ST
    /\ chip8.keys = prev.keys

\* C31 witness: 00E0 ran inside a subroutine with the glyph of digit 10 on
\* the display, VF = 7, I = 50 and both timers at 3, and left all of that but
\* the display.
C31_Witness ==
  /\ IsCLS
  /\ rom = Rom("glyph", 10, 0, 0, 0)
  /\ Pixel(prev, 10 + 64 * 10)
  /\ chip8.display = Blank
  /\ chip8.V[15] = 7
  /\ chip8.I = 50
  /\ chip8.sp = 1
  /\ chip8.stack[1] = 528
  /\ chip8.DT = 3
  /\ chip8.ST = 3
  /\ chip8.pc = 532

\* The last cycle executed a Dxyn that names V15 as a coordinate register.
IsFlagDRW == IsDRW /\ (field_x(LastOp) = 15 \/ field_y(LastOp) = 15)

\* C32: DFyn and DxFn draw at the value V15 held before the instruction:
\* the pixels they change are the targets of the sprite's on bits from that
\* coordinate, which are not the targets from coordinate 0 unless the old
\* V15 is 0 modulo the display's width (as x) or height (as y).
C32_DrawAtOldFlagRegister ==
  (IsFlagDRW /\ panic = "none") =>
     LET old == prev.V[15]
         vx == IF field_x(LastOp) = 15 THEN old ELSE prev.V[field_x(LastOp)]
         vy == IF field_y(LastOp) = 15 THEN old ELSE prev.V[field_y(LastOp)]
         on == SpriteOn(prev, DrwN)
         at(cx, cy) == {Target(cx, cy, q[1], q[2]) : q \in on}
         changed == {p \in 0..(DISPLAY_SIZE - 1) : Pixel(chip8, p) # Pixel(prev, p)}
     IN  /\ changed = at(vx, vy)
         /\ (on # {} /\ field_x(LastOp) = 15 /\ old % 64 # 0) =>
               changed # at(0, vy)
         /\ (on # {} /\ field_y(LastOp) = 15 /\ old % 32 # 0) =>
               changed # at(vx, 0)

\* C32 witness: DF11 with V15 = 9 and V1 = 3 on a blank display lit the four
\* pixels of the row 0xF0 from column 9 of row 3, none at column 0, and left
\* V15 = 0.
C32_Witness ==
  /\ IsFlagDRW
  /\ panic = "none"
  /\ LastOp = 57105
  /\ prev.V[15] = 9
  /\ prev.V[1] = 3
  /\ prev.display = Blank
  /\ \A p \in 0..(DISPLAY_SIZE - 1) :
       Pixel(chip8, p) = (p \in (9 + 64 * 3)..(12 + 64 * 3))
  /\ chip8.V[15] = 0

\* The last cycle executed 8xy4.
IsADD == Ran /\ field_o(LastOp) = 8 /\ field_n(LastOp) = 4

\* C33: from the state in which 8xy4 (x other than 15) was fetched, both
\* interpreter copies complete and leave Vx = (Vx + Vy) mod 256 and every
\* field but V15 alike; the root copy leaves V15 = 1 exactly when the sum
\* exceeds 0x10, the chip8 copy (the one that ran) exactly when it exceeds
\* 0xFF, so V15 differs exactly when 0x10 < Vx + Vy <= 0xFF.
C33_AddCopiesDisagree ==
  (IsADD /\ OpX # 15) =>
     LET m == [prev EXCEPT !.pc = prev.pc + 2]
         sum == OldVx + OldVy
         lib == op_ADD_reg(m, OpX, OpY)
         root == op_ADD_reg_root(m, OpX, OpY)
     IN  /\ lib.panic = "none"
         /\ root.panic = "none"
         /\ panic = "none"
         /\ chip8 = lib.chip8
         /\ lib.chip8.V[OpX] = sum % 256
         /\ root.chip8.V[OpX] = sum % 256
         /\ lib.chip8.V[15] = (IF sum > 255 THEN 1 ELSE 0)
         /\ root.chip8.V[15] = (IF sum > 16 THEN 1 ELSE 0)
         /\ (lib.chip8.V[15] # root.chip8.V[15]) <=> (16 < sum /\ sum <= 255)
         /\ [lib.chip8 EXCEPT !.V[15] = 0] = [root.chip8 EXCEPT !.V[15] = 0]

\* C33 witness: 8124 with V1 = 16 and V2 = 1 left V1 = 17 and V15 = 0, where
\* the root copy leaves V1 = 17 and V15 = 1.
C33_Witness ==
  /\ IsADD
  /\ LastOp = 33060
  /\ OldVx = 16
  /\ OldVy = 1
  /\ chip8.V[1] = 17
  /\ chip8.V[15] = 0
  /\ op_ADD_reg_root([prev EXCEPT !.pc = prev.pc + 2], 1, 2).chip8.V[1] = 17
  /\ op_ADD_reg_root([prev EXCEPT !.pc = prev.pc + 2], 1, 2).chip8.V[15] = 1

\* The 4x5 glyph of each hex digit: the left four pixels of its five rows,
\* as numbers 0..15 (the right four pixels of a font row are off).
GlyphRows ==
  << <<15, 9, 9, 9, 15>>, <<2, 6, 2, 2, 7>>, <<15, 1, 15, 8, 15>>,
     <<15, 1, 15, 1, 15>>, <<9, 9, 15, 1, 1>>, <<15, 8, 15, 1, 15>>,
     <<15, 8, 15, 9, 15>>, <<15, 1, 2, 4, 4>>, <<15, 9, 15, 9, 15>>,
     <<15, 9, 15, 1, 15>>, <<15, 9, 15, 9, 9>>, <<14, 9, 14, 9, 14>>,
     <<15, 8, 8, 8, 15>>, <<14, 9, 9, 9, 14>>, <<15, 8, 15, 8, 15>>,
     <<15, 8, 15, 8, 8>> >>

\* The five bytes at address a are the glyph of digit d.
GlyphAt(m, a, d) == \A r \in 0..4 : Mem(m, a + r) = 16 * GlyphRows[d + 1][r + 1]

\* The last cycle executed Fx29.
IsLDF == Ran /\ field_o(LastOp) = 15 /\ field_kk(LastOp) = 41

\* C34: the machine as constructed holds the glyph of digit d in the five
\* bytes at 5*d, zero in memory from 0x050 on, zero in every V register, I,
\* sp, DT, ST and pc, a blank display and no pressed key; Fx29 sets I to
\* 5 * Vx and changes nothing else but pc, and for Vx in 0..15 the five
\* bytes at the new I are the glyph of digit Vx.
C34_FontAndInitialState ==
  /\ call = "new" =>
       /\ \A d \in 0..15 : GlyphAt(chip8, 5 * d, d)
       /\ Len(chip8.memory) = 4096
       /\ \A a \in 80..4095 : Mem(chip8, a) = 0
       /\ \A r \in 0..15 : chip8.V[r] = 0
       /\ chip8.I = 0
       /\ chip8.sp = 0
       /\ chip8.DT = 0
       /\ chip8.ST = 0
       /\ chip8.pc = 0
       /\ chip8.display = Blank
       /\ \A k \in 0..15 : ~chip8.keys[k]
  /\ IsLDF =>
       /\ panic = "none"
       /\ chip8 = [prev EXCEPT !.pc = prev.pc + 2, !.I = 5 * OldVx]
       /\ OldVx <= 15 => GlyphAt(chip8, chip8.I, OldVx)

\* C34 witness: F029 with V0 = 11 left I = 55, where the bytes E0 90 E0 90
\* E0 of the glyph of B lie.
C34_Witness ==
  /\ IsLDF
  /\ panic = "none"
  /\ LastOp = 61481
  /\ OldVx = 11
  /\ chip8.I = 55
  /\ <<Mem(chip8, 55), Mem(chip8, 56), Mem(chip8, 57), Mem(chip8, 58),
       Mem(chip8, 59)>> = <<224, 144, 224, 144, 224>>

====
